---- MODULE Spec2Model ----
(***************************************************************************)
(* Model of MeshConverter (src/image2mesh.py): the convert() pipeline      *)
(* load -> scale -> {direct export | temp export -> engine load ->         *)
(* decimate -> name -> final export}, the filesystem it touches (temp      *)
(* directory, output directories, output files) and the way a run is       *)
(* started (constructor call or main()).                                   *)
(***************************************************************************)
EXTENDS Integers, Sequences, FiniteSets, TLC

(* ---------------------------- bounds ---------------------------------- *)
NumRuns == 2          \* converter runs that exist in the model
MaxTarget == 1        \* requested face counts are drawn from -1..MaxTarget
MaxFaces == 2         \* face counts of the source mesh: 0..MaxFaces
MaxCoord == 2         \* a vertex coordinate of the source: 1..MaxCoord
MaxScale == 2         \* explicit scale factors: 1..MaxScale
NumTempNames == 2     \* names tempfile.mktemp can return

Procs == 1..NumRuns
TempNames == 1..NumTempNames

(* ------------------------- optional values ---------------------------- *)
None == [some |-> FALSE, val |-> 0]
Some(n) == [some |-> TRUE, val |-> n]
NoPath == "<None>"

(* -------------------- program constants and helpers ------------------- *)
\* MeshConverter.__init__: scale: float = 1.0
ScaleCtorDefault == 1
\* main(): parser.add_argument("--scale", type=float, default=1000, ...)
ScaleCliDefault == 1000

Lower(s) ==
  CASE s = "STL" -> "stl"
    [] s = "OBJ" -> "obj"
    [] OTHER -> s

Join(dir, name) == dir \o "/" \o name

ArgparseScale(arg) == IF arg.some THEN arg.val ELSE ScaleCliDefault

CtorScaleM(arg) == IF arg.some THEN arg.val ELSE ScaleCliDefault
CtorScale(arg) == IF arg.some THEN arg.val ELSE ScaleCtorDefault

\* the scale argument the constructor receives
ScaleArgToCtor(via, arg) ==
  IF via = "main" THEN Some(ArgparseScale(arg)) ELSE arg

MeshConverterInit(parent, stem, output_type, target_faces, scaleArg) ==
  [ parent       |-> parent,
    base_stem    |-> stem,
    output_type  |-> Lower(output_type),
    target_faces |-> target_faces,
    scale        |-> CtorScale(scaleArg),
    subdir       |-> NoPath,
    output_path  |-> NoPath ]

\* convert(): remove_tex = False if self.target_faces is None else True
RemoveTexM(target_faces) == TRUE
RemoveTex(target_faces) == target_faces.some

\* _load_mesh: the texture stripping applied to mesh.visual
StripTexture(visual) ==
  [ kind     |-> visual.kind,
    material |-> IF visual.kind = "texture" /\ visual.material # "none"
                 THEN "noimage" ELSE visual.material,
    uv       |-> IF visual.kind = "texture" THEN "none" ELSE visual.uv ]

LoadedMesh(source, remove_texture) ==
  [ faces    |-> source.faces,
    hasFaces |-> source.hasFaces,
    vertex   |-> source.vertex,
    visual   |-> IF remove_texture THEN StripTexture(source.visual)
                 ELSE source.visual ]

\* _apply_scale: mesh.apply_scale(self.scale)
ScaleVertex(v, s) == v * s

\* _export_direct: mesh.faces.shape[0] if hasattr(mesh, "faces") else 0
DirectFaceCountM(m) == 0
DirectFaceCount(m) == IF m.hasFaces THEN m.faces ELSE 0

\* Python truthiness of self.target_faces (None and 0 are falsy)
Truthy(target_faces) == target_faces.some /\ target_faces.val # 0

\* _update_output_name: new_stem
NewStem(c, face_count) ==
  IF Truthy(c.target_faces)
  THEN c.base_stem \o "_faces" \o ToString(c.target_faces.val)
  ELSE c.base_stem \o "_faces" \o ToString(face_count)

\* _update_output_name: self.subdir
NewSubdir(c, face_count) ==
  IF Truthy(c.target_faces)
  THEN Join(c.parent, NewStem(c, face_count))
  ELSE Join(c.parent, c.base_stem)

\* _update_output_name: self.output_path
NewOutputPath(c, face_count) ==
  Join(NewSubdir(c, face_count), NewStem(c, face_count) \o "." \o c.output_type)

\* Path.mkdir(exist_ok=True): an existing directory is accepted; creating a
\* missing one succeeds when the filesystem allows it
MkdirOkM(exists, canCreate) == ~exists /\ canCreate
MkdirOk(exists, canCreate) == exists \/ canCreate

\* convert(): the branch taken after load and scale
NextAfterScaleM(target_faces) == IF target_faces.some THEN "final" ELSE "direct"
NextAfterScale(target_faces) == IF target_faces.some THEN "mktemp" ELSE "direct"

\* convert(): ms = self._decimate(ms) raises on failure, otherwise goes on
NextAfterDecimate(ok) == IF ok THEN "name" ELSE "raised"

\* _export_and_load_temp: ImportError raises, otherwise goes on to the load
NextAfterImportM(ok) == IF ok THEN "engineload" ELSE "direct"
NextAfterImport(ok) == IF ok THEN "engineload" ELSE "raised"

(* ----------------------------- inputs --------------------------------- *)
Parent == "/d"
Stems == {"bunny"}
Targets == {None} \cup {Some(n) : n \in (-1)..MaxTarget}
ScaleArgs == {None} \cup {Some(n) : n \in 1..MaxScale}
Visuals ==
  { [kind |-> "color",   material |-> "absent", uv |-> "absent"],
    [kind |-> "texture", material |-> "image",  uv |-> "uv"],
    [kind |-> "texture", material |-> "none",   uv |-> "uv"] }
SourceMeshes ==
  { [faces |-> f, hasFaces |-> TRUE, vertex |-> v, visual |-> vis] :
      f \in 0..MaxFaces, v \in 1..MaxCoord, vis \in Visuals }
  \cup
  { [faces |-> 0, hasFaces |-> FALSE, vertex |-> v, visual |-> vis] :
      v \in 1..MaxCoord, vis \in Visuals }
EmptyMesh ==
  [faces |-> 0, hasFaces |-> FALSE, vertex |-> 0,
   visual |-> [kind |-> "color", material |-> "absent", uv |-> "absent"]]
NoMs == [loaded |-> FALSE, from |-> 0, faces |-> 0]

\* how a run is started: through the constructor, or through main()
\* (whose --type is restricted to choices=["obj", "stl"])
Invocations ==
  { [via |-> "ctor", type |-> t, target |-> tf, scaleArg |-> s,
     stem |-> st, source |-> m] :
      t \in {"obj", "stl", "STL"}, tf \in Targets, s \in ScaleArgs,
      st \in Stems, m \in SourceMeshes }
  \cup
  { [via |-> "main", type |-> t, target |-> tf, scaleArg |-> s,
     stem |-> st, source |-> m] :
      t \in {"obj", "stl"}, tf \in Targets, s \in ScaleArgs,
      st \in Stems, m \in SourceMeshes }

\* concurrent runs: a small set of requests, decimating or not
ConcInvocations ==
  { [via |-> "ctor", type |-> "obj", target |-> tf, scaleArg |-> None,
     stem |-> "bunny",
     source |-> [faces |-> MaxFaces, hasFaces |-> TRUE, vertex |-> 1,
                 visual |-> [kind |-> "color", material |-> "absent",
                             uv |-> "absent"]]] :
      tf \in {None, Some(1)} }

NewConverter(i) ==
  MeshConverterInit(Parent, i.stem, i.type, i.target,
                    ScaleArgToCtor(i.via, i.scaleArg))

(* ------------------------------ state --------------------------------- *)
VARIABLES
  inv,        \* inv[p]: how run p was started (never changes)
  conv,       \* conv[p]: the MeshConverter object's fields
  mesh,       \* conv[p]'s local `mesh` in convert()
  ms,         \* the pymeshlab MeshSet `ms`
  temp_path,  \* the local temp_path of _export_and_load_temp (0: not chosen)
  loadOk,     \* whether load_new_mesh returned, pending the finally clause
  pc,         \* position of run p in convert()
  trace,      \* stages attempted so far: <<stage, succeeded>>
  wrote,      \* run p has started writing its temp file
  tmpfs,      \* temp directory: name -> 0 (absent), p (written by p), -p (partial)
  dirs,       \* existing output directories
  dirs0,      \* the directories that existed before any run
  outfiles    \* final output files written

vars == <<inv, conv, mesh, ms, temp_path, loadOk, pc, trace, wrote,
          tmpfs, dirs, dirs0, outfiles>>

NoFile == 0

IdleInvocation ==
  [via |-> "ctor", type |-> "obj", target |-> None, scaleArg |-> None,
   stem |-> "bunny", source |-> EmptyMesh]

InitWith(invs, active, pre) ==
  /\ inv = invs
  /\ conv = [p \in Procs |-> NewConverter(invs[p])]
  /\ mesh = [p \in Procs |-> EmptyMesh]
  /\ ms = [p \in Procs |-> NoMs]
  /\ temp_path = [p \in Procs |-> 0]
  /\ loadOk = [p \in Procs |-> FALSE]
  /\ pc = [p \in Procs |-> IF p \in active THEN "load" ELSE "idle"]
  /\ trace = [p \in Procs |-> << >>]
  /\ wrote = [p \in Procs |-> FALSE]
  /\ tmpfs = [n \in TempNames |-> NoFile]
  /\ dirs = pre
  /\ dirs0 = pre
  /\ outfiles = {}

\* one run
Init ==
  \E i \in Invocations :
    \E pre \in SUBSET { Join(Parent, i.stem),
                        Join(Parent, i.stem \o "_faces" \o ToString(i.target.val)) } :
      InitWith([p \in Procs |-> IF p = 1 THEN i ELSE IdleInvocation], {1}, pre)

\* all runs execute concurrently
InitConc ==
  \E invs \in [Procs -> ConcInvocations] :
    InitWith(invs, Procs, {})

Log(p, stage, ok) == trace' = [trace EXCEPT ![p] = Append(@, <<stage, ok>>)]

(* ----------------------------- actions -------------------------------- *)
\* convert(): mesh = self._load_mesh(remove_tex); failure is printed and
\* convert returns
LoadMesh(p) ==
  /\ pc[p] = "load"
  /\ \E ok \in BOOLEAN :
       /\ mesh' = [mesh EXCEPT ![p] =
                     IF ok THEN LoadedMesh(inv[p].source,
                                           RemoveTex(conv[p].target_faces))
                     ELSE @]
       /\ pc' = [pc EXCEPT ![p] = IF ok THEN "scale" ELSE "returned"]
       /\ Log(p, "load", ok)
  /\ UNCHANGED <<inv, conv, ms, temp_path, loadOk, wrote, tmpfs, dirs, dirs0,
                 outfiles>>

\* convert(): mesh = self._apply_scale(mesh); failure is printed and convert
\* returns
ApplyScale(p) ==
  /\ pc[p] = "scale"
  /\ \E ok \in BOOLEAN :
       /\ (conv[p].scale = 1) => ok
       /\ mesh' = [mesh EXCEPT ![p].vertex =
                     IF conv[p].scale # 1 /\ ok
                     THEN ScaleVertex(@, conv[p].scale) ELSE @]
       /\ pc' = [pc EXCEPT ![p] =
                   IF ok THEN NextAfterScale(conv[p].target_faces)
                   ELSE "returned"]
       /\ Log(p, "scale", ok)
  /\ UNCHANGED <<inv, conv, ms, temp_path, loadOk, wrote, tmpfs, dirs, dirs0,
                 outfiles>>

\* _update_output_name(face_count) followed by the continuation `after`
\* when mkdir succeeded; mkdir raising leaves output_path unset
UpdateOutputName(p, face_count, canCreate) ==
  LET sub == NewSubdir(conv[p], face_count)
      ok  == MkdirOk(sub \in dirs, canCreate)
  IN /\ conv' = [conv EXCEPT ![p].subdir = sub,
                             ![p].output_path =
                                IF ok THEN NewOutputPath(conv[p], face_count)
                                ELSE @]
     /\ dirs' = IF ok THEN dirs \cup {sub} ELSE dirs

\* _export_direct(mesh)
ExportDirect(p) ==
  /\ pc[p] = "direct"
  /\ \E canCreate \in BOOLEAN, ok \in BOOLEAN :
       LET fc    == DirectFaceCount(mesh[p])
           named == MkdirOk(NewSubdir(conv[p], fc) \in dirs, canCreate)
       IN /\ UpdateOutputName(p, fc, canCreate)
          /\ (~named) => ok
          /\ IF ~named
             THEN /\ pc' = [pc EXCEPT ![p] = "raised"]
                  /\ trace' = [trace EXCEPT ![p] = Append(@, <<"name", FALSE>>)]
                  /\ UNCHANGED outfiles
             ELSE /\ pc' = [pc EXCEPT ![p] = "returned"]
                  /\ trace' = [trace EXCEPT ![p] =
                                 @ \o << <<"name", TRUE>>, <<"export", ok>> >>]
                  /\ outfiles' = IF ok
                                 THEN outfiles \cup {NewOutputPath(conv[p], fc)}
                                 ELSE outfiles
  /\ UNCHANGED <<inv, mesh, ms, temp_path, loadOk, wrote, tmpfs, dirs0>>

\* _export_and_load_temp: temp_path = Path(tempfile.mktemp(suffix=".ply"))
\* returns a name that does not exist at the time of the call
Mktemp(p) ==
  /\ pc[p] = "mktemp"
  /\ \E n \in TempNames :
       /\ tmpfs[n] = NoFile
       /\ temp_path' = [temp_path EXCEPT ![p] = n]
  /\ pc' = [pc EXCEPT ![p] = "tempexport"]
  /\ UNCHANGED <<inv, conv, mesh, ms, loadOk, trace, wrote, tmpfs, dirs, dirs0,
                 outfiles>>

\* _export_and_load_temp: mesh.export(str(temp_path)); a failed export may
\* leave a partially written file
ExportTemp(p) ==
  /\ pc[p] = "tempexport"
  /\ \E ok \in BOOLEAN, started \in BOOLEAN :
       /\ ok => started
       /\ tmpfs' = [tmpfs EXCEPT ![temp_path[p]] =
                      IF ok THEN p ELSE IF started THEN -p ELSE @]
       /\ wrote' = [wrote EXCEPT ![p] = started]
       /\ pc' = [pc EXCEPT ![p] = IF ok THEN "import" ELSE "raised"]
       /\ Log(p, "tempexport", ok)
  /\ UNCHANGED <<inv, conv, mesh, ms, temp_path, loadOk, dirs, dirs0, outfiles>>

\* _export_and_load_temp: import pymeshlab as ml
ImportEngine(p) ==
  /\ pc[p] = "import"
  /\ \E ok \in BOOLEAN :
       /\ pc' = [pc EXCEPT ![p] = NextAfterImport(ok)]
       /\ Log(p, "import", ok)
  /\ UNCHANGED <<inv, conv, mesh, ms, temp_path, loadOk, wrote, tmpfs, dirs,
                 dirs0, outfiles>>

\* _export_and_load_temp: ms = ml.MeshSet(); ms.load_new_mesh(str(temp_path))
LoadTemp(p) ==
  /\ pc[p] = "engineload"
  /\ \E ok \in BOOLEAN :
       /\ ok => tmpfs[temp_path[p]] \in Procs
       /\ ms' = [ms EXCEPT ![p] =
                   IF ok THEN [loaded |-> TRUE, from |-> tmpfs[temp_path[p]],
                               faces |-> mesh[tmpfs[temp_path[p]]].faces]
                   ELSE @]
       /\ loadOk' = [loadOk EXCEPT ![p] = ok]
       /\ Log(p, "engineload", ok)
  /\ pc' = [pc EXCEPT ![p] = "unlink"]
  /\ UNCHANGED <<inv, conv, mesh, temp_path, wrote, tmpfs, dirs, dirs0, outfiles>>

\* _export_and_load_temp: finally: temp_path.unlink(), any error ignored;
\* then the pending return or raise takes effect
UnlinkTemp(p) ==
  /\ pc[p] = "unlink"
  /\ tmpfs' = [tmpfs EXCEPT ![temp_path[p]] = NoFile]
  /\ pc' = [pc EXCEPT ![p] = IF loadOk[p] THEN "decimate" ELSE "raised"]
  /\ Log(p, "unlink", tmpfs[temp_path[p]] # NoFile)
  /\ UNCHANGED <<inv, conv, mesh, ms, temp_path, loadOk, wrote, dirs, dirs0,
                 outfiles>>

\* _decimate(ms): the engine returns some face count, not necessarily the target
Decimate(p) ==
  /\ pc[p] = "decimate"
  /\ \E ok \in BOOLEAN, f \in 0..MaxFaces :
       /\ f <= ms[p].faces
       /\ (~ok) => f = ms[p].faces
       /\ ms' = [ms EXCEPT ![p].faces = f]
       /\ pc' = [pc EXCEPT ![p] = NextAfterDecimate(ok)]
       /\ Log(p, "decimate", ok)
  /\ UNCHANGED <<inv, conv, mesh, temp_path, loadOk, wrote, tmpfs, dirs, dirs0,
                 outfiles>>

\* convert(): self._update_output_name(self.target_faces)
NameOutput(p) ==
  /\ pc[p] = "name"
  /\ \E canCreate \in BOOLEAN :
       LET fc    == conv[p].target_faces.val
           named == MkdirOk(NewSubdir(conv[p], fc) \in dirs, canCreate)
       IN /\ UpdateOutputName(p, fc, canCreate)
          /\ pc' = [pc EXCEPT ![p] = IF named THEN "final" ELSE "raised"]
          /\ Log(p, "name", named)
  /\ UNCHANGED <<inv, mesh, ms, temp_path, loadOk, wrote, tmpfs, dirs0, outfiles>>

\* _export_final(ms): ms.save_current_mesh(str(self.output_path))
ExportFinal(p) ==
  /\ pc[p] = "final"
  /\ \E ok \in BOOLEAN :
       /\ outfiles' = IF ok THEN outfiles \cup {conv[p].output_path} ELSE outfiles
       /\ pc' = [pc EXCEPT ![p] = IF ok THEN "returned" ELSE "raised"]
       /\ Log(p, "export", ok)
  /\ UNCHANGED <<inv, conv, mesh, ms, temp_path, loadOk, wrote, tmpfs, dirs,
                 dirs0>>

Next ==
  \E p \in Procs :
    \/ LoadMesh(p)
    \/ ApplyScale(p)
    \/ ExportDirect(p)
    \/ Mktemp(p)
    \/ ExportTemp(p)
    \/ ImportEngine(p)
    \/ LoadTemp(p)
    \/ UnlinkTemp(p)
    \/ Decimate(p)
    \/ NameOutput(p)
    \/ ExportFinal(p)

Spec == Init /\ [][Next]_vars
SpecConc == InitConc /\ [][Next]_vars

(* ------------------------- derived notions ---------------------------- *)
Exited(p) == pc[p] \in {"returned", "raised"}
Idx(p) == 1..Len(trace[p])
Attempted(p, stage) == \E i \in Idx(p) : trace[p][i][1] = stage
Succeeded(p, stage) == \E i \in Idx(p) : trace[p][i] = <<stage, TRUE>>
FailedStage(p, stage) == \E i \in Idx(p) : trace[p][i] = <<stage, FALSE>>
SucceededBefore(p, stage, i) ==
  \E j \in Idx(p) : j < i /\ trace[p][j] = <<stage, TRUE>>
Decimating(p) == inv[p].target.some
RequestedStem(p) == inv[p].stem \o "_faces" \o ToString(inv[p].target.val)
ActualStem(p) == inv[p].stem \o "_faces" \o ToString(inv[p].source.faces)
FileName(p, stem) == stem \o "." \o conv[p].output_type
PipelineStages ==
  {"load", "scale", "tempexport", "import", "engineload", "decimate", "export"}
UsingTemp(p) == pc[p] \in {"tempexport", "import", "engineload", "unlink"}

(* ------------------------------ claims -------------------------------- *)
\* C1: once a run has started writing its temporary .ply file, that file no
\* longer exists when convert() has exited, whatever the exit path.
C1_TempFileGoneAtExit ==
  \A p \in Procs :
    (Exited(p) /\ wrote[p]) => tmpfs[temp_path[p]] = NoFile

\* C2: in every run with a target face count T (0 included), once the output
\* is named, the subfolder and the file stem are both "{stem}_faces{T}".
C2_RequestedCountNaming ==
  \A p \in Procs :
    (Decimating(p) /\ conv[p].output_path # NoPath) =>
      /\ conv[p].subdir = Join(Parent, RequestedStem(p))
      /\ conv[p].output_path =
           Join(Join(Parent, RequestedStem(p)), FileName(p, RequestedStem(p)))

\* C3: in every run without a target face count, once the output is named,
\* the subfolder is the bare input stem and the file stem is
\* "{stem}_faces{F}" with F the face count of the loaded mesh.
C3_ActualCountNaming ==
  \A p \in Procs :
    (~Decimating(p) /\ conv[p].output_path # NoPath) =>
      /\ conv[p].subdir = Join(Parent, inv[p].stem)
      /\ conv[p].output_path =
           Join(Join(Parent, inv[p].stem), FileName(p, ActualStem(p)))

C3_Witness ==
  \E p \in Procs :
    /\ ~Decimating(p)
    /\ pc[p] = "returned"
    /\ inv[p].source.faces = MaxFaces
    /\ conv[p].output_path \in outfiles

\* C4: when decimation is requested and the engine is unavailable or the
\* filter raises, convert() raises to its caller, no final output file is
\* written and neither _export_direct nor _export_final has run.
C4_NoFallback ==
  \A p \in Procs :
    (Decimating(p) /\ (FailedStage(p, "import") \/ FailedStage(p, "decimate"))) =>
      /\ pc[p] = "raised"
      /\ outfiles = {}
      /\ ~Attempted(p, "export")
      /\ ~Attempted(p, "name")
      /\ conv[p].output_path = NoPath

C4_Witness ==
  \E p \in Procs :
    /\ Decimating(p)
    /\ FailedStage(p, "import")
    /\ pc[p] = "raised"

\* C5: after any stage of convert() has failed (load, scale, direct export,
\* temp export, engine load, decimation, final export), convert() does not
\* return normally: the failure reaches the caller as an error.
C5_FailureSurfaces ==
  \A p \in Procs :
    (\E st \in PipelineStages : FailedStage(p, st)) => pc[p] = "raised"

\* C6: the loaded mesh has its texture (material image, UV) stripped if and
\* only if a target face count was given; otherwise it is the source's.
C6_TextureStrippedIffDecimating ==
  \A p \in Procs :
    Succeeded(p, "load") =>
      IF Decimating(p)
      THEN mesh[p].visual.material # "image" /\ mesh[p].visual.uv # "uv"
      ELSE mesh[p].visual = inv[p].source.visual

C6_Witness ==
  \E p \in Procs :
    /\ Decimating(p)
    /\ Succeeded(p, "load")
    /\ inv[p].source.visual.material = "image"
    /\ mesh[p].visual.material = "noimage"
    /\ mesh[p].visual.uv = "none"

\* C7 (as stated): a run for which no scale factor was supplied uses scale
\* 1.0 and leaves the vertex positions unchanged, whether started through
\* the constructor or through main().
C7_DefaultScaleIsIdentity ==
  \A p \in Procs :
    (inv[p].scaleArg = None /\ Succeeded(p, "scale")) =>
      /\ conv[p].scale = 1
      /\ mesh[p].vertex = inv[p].source.vertex

\* C7 (amended): without a scale argument the constructor uses 1.0 and the
\* scale step changes nothing; main() without --scale passes 1000 and the
\* scale step multiplies the vertex positions by 1000.
C7_DefaultScalePerEntryPoint ==
  \A p \in Procs :
    (inv[p].scaleArg = None /\ Succeeded(p, "scale")) =>
      IF inv[p].via = "ctor"
      THEN /\ conv[p].scale = 1
           /\ mesh[p].vertex = inv[p].source.vertex
      ELSE /\ conv[p].scale = 1000
           /\ mesh[p].vertex = 1000 * inv[p].source.vertex

C7_Witness ==
  \E p \in Procs :
    /\ inv[p].scaleArg = None
    /\ inv[p].via = "main"
    /\ Succeeded(p, "scale")
    /\ mesh[p].vertex = 1000 * inv[p].source.vertex

\* C8: a final export is attempted at most once per run, as the last stage
\* action, and only after load, scale, naming and (when decimating) temp
\* export, engine import and load, and decimation have all succeeded.
C8_ExportOnceAndLast ==
  \A p \in Procs :
    LET exports == {i \in Idx(p) : trace[p][i][1] = "export"}
    IN /\ Cardinality(exports) <= 1
       /\ \A i \in exports :
            /\ i = Len(trace[p])
            /\ SucceededBefore(p, "load", i)
            /\ SucceededBefore(p, "scale", i)
            /\ SucceededBefore(p, "name", i)
            /\ Decimating(p) =>
                 /\ SucceededBefore(p, "tempexport", i)
                 /\ SucceededBefore(p, "import", i)
                 /\ SucceededBefore(p, "engineload", i)
                 /\ SucceededBefore(p, "decimate", i)

C8_Witness ==
  \E p \in Procs :
    /\ Decimating(p)
    /\ Exited(p)
    /\ Attempted(p, "export")
    /\ Succeeded(p, "decimate")

\* C9: concurrent decimating runs never hold the same temporary file path at
\* the same time, and a run only ever loads the temp file it wrote itself.
C9_TempPathsDisjoint ==
  \A p \in Procs :
    /\ \A q \in Procs \ {p} :
         (UsingTemp(p) /\ UsingTemp(q)) => temp_path[p] # temp_path[q]
    /\ ms[p].loaded => ms[p].from = p

\* C10: the output location is set, and the output directory created, at
\* most once per run and only by the naming step; that step runs only after
\* load and scale (and, when decimating, temp export, engine load and
\* decimation) succeeded; without a target it is immediately followed by the
\* export; and it never fails on a directory that already exists.
C10_LazyOutputLocation ==
  \A p \in Procs :
    LET names == {i \in Idx(p) : trace[p][i][1] = "name"}
    IN /\ Cardinality(names) <= 1
       /\ (conv[p].output_path # NoPath \/ conv[p].subdir # NoPath
             \/ (pc[p] # "idle" /\ dirs # dirs0)) => names # {}
       /\ \A i \in names :
            /\ SucceededBefore(p, "load", i)
            /\ SucceededBefore(p, "scale", i)
            /\ Decimating(p) =>
                 /\ SucceededBefore(p, "tempexport", i)
                 /\ SucceededBefore(p, "engineload", i)
                 /\ SucceededBefore(p, "decimate", i)
            /\ (~Decimating(p) /\ trace[p][i][2]) =>
                 (Len(trace[p]) = i + 1 /\ trace[p][i + 1][1] = "export")
            /\ conv[p].subdir \in dirs0 => trace[p][i][2]
            /\ trace[p][i][2] => conv[p].subdir \in dirs

C10_Witness ==
  \E p \in Procs :
    /\ Decimating(p)
    /\ Succeeded(p, "name")
    /\ conv[p].subdir \in dirs0

====
